---- MODULE Spec2Model ----
(***************************************************************************)
(* Session orchestrator of the MedGraph RAG assistant (the App component). *)
(* The state is the component's React state plus the promises of the       *)
(* oracle calls that are pending; every event handler and every            *)
(* continuation after an await is one action.                              *)
(*                                                                         *)
(* Text is a sequence of one-character strings, so that String.trim and    *)
(* the falsiness test of a string are computed, not assumed.               *)
(*                                                                         *)
(* History variables (they record, they never guard): extractions,         *)
(* turnOwner, blankSubmit and the fields held, flagAfter, returned,        *)
(* before, after of the records.                                           *)
(***************************************************************************)
EXTENDS Naturals, Sequences, FiniteSets

VARIABLES
    activeStep,        \* 'EXTRACT' | 'ASSISTANT'
    rawText,           \* content of the extraction textarea
    extractedTriples,  \* the held Extraction Result
    isExtracting,      \* extraction lane in-flight flag
    query,             \* content of the query input
    chatHistory,       \* the Chat Turn sequence
    isGenerating,      \* assistant lane in-flight flag
    inflight,          \* oracle calls issued and not yet resolved
    requests,          \* one record per invocation of handleAssistantQuery that passed its guard
    extractions,       \* one record per invocation of handleExtraction that passed its guard
    turnOwner,         \* turnOwner[i]: the request that appended chatHistory[i]
    blankSubmit        \* the handler the last step invoked on a blank input, or "none"

\* everything but blankSubmit
sessionVars == <<activeStep, rawText, extractedTriples, isExtracting, query,
                 chatHistory, isGenerating, inflight, requests, extractions, turnOwner>>

vars == <<sessionVars, blankSubmit>>

-----------------------------------------------------------------------------
(* Bounds of the model *)

\* handler invocations that pass their guard, both lanes together
MaxSubmissions == 2

-----------------------------------------------------------------------------
(* Text *)

Whitespace == {" "}

RECURSIVE TrimStart(_)
TrimStart(s) ==
    IF s = <<>> THEN s
    ELSE IF Head(s) \in Whitespace THEN TrimStart(Tail(s)) ELSE s

RECURSIVE TrimEnd(_)
TrimEnd(s) ==
    IF s = <<>> THEN s
    ELSE IF s[Len(s)] \in Whitespace THEN TrimEnd(SubSeq(s, 1, Len(s) - 1)) ELSE s

\* mutant: the guards test !s, not !s.trim()
Trim_Nothing(s) == s

\* String.prototype.trim
Trim(s) == TrimEnd(TrimStart(s))

\* s is empty or holds nothing but whitespace
IsBlank(s) == \A i \in 1..Len(s) : s[i] \in Whitespace

\* !s for a string s: true of the empty string only
Falsy(s) == s = <<>>

\* what the user can type in the textarea and in the query input
RawTexts == { <<>>, <<" ">>, <<"s", " ">> }
Queries == { <<>>, <<" ">>, <<" ", "q">> }

-----------------------------------------------------------------------------
(* Vocabulary and facts *)

MedicalEntity ==
    { "disease", "symptom", "treatment", "risk_factor", "test/diagnostic", "gene",
      "biomarker", "complication", "prognosis", "comorbidity", "progression",
      "body_part" }

CausalRelation ==
    { "cause", "treat", "present", "diagnose", "aggravate", "prevent", "improve",
      "affect" }

\* mutant: the smoking fact comes first
DefaultFacts_Reordered ==
    << [subject |-> "Smoking", subject_type |-> "risk_factor",
        predicate |-> "aggravate", object |-> "AMD Progression",
        object_type |-> "progression"],
       [subject |-> "Age-related Macular Degeneration", subject_type |-> "disease",
        predicate |-> "cause", object |-> "Central Vision Impairment",
        object_type |-> "progression"],
       [subject |-> "NCT01778491", subject_type |-> "test/diagnostic",
        predicate |-> "diagnose", object |-> "AMD Subtypes",
        object_type |-> "disease"] >>

\* mutant: a type that is not of the vocabulary ("test" for "test/diagnostic")
DefaultFacts_OutOfVocabulary ==
    << [subject |-> "Age-related Macular Degeneration", subject_type |-> "disease",
        predicate |-> "cause", object |-> "Central Vision Impairment",
        object_type |-> "progression"],
       [subject |-> "Smoking", subject_type |-> "risk_factor",
        predicate |-> "aggravate", object |-> "AMD Progression",
        object_type |-> "progression"],
       [subject |-> "NCT01778491", subject_type |-> "test",
        predicate |-> "diagnose", object |-> "AMD Subtypes",
        object_type |-> "disease"] >>

DefaultFacts ==
    << [subject |-> "Age-related Macular Degeneration", subject_type |-> "disease",
        predicate |-> "cause", object |-> "Central Vision Impairment",
        object_type |-> "progression"],
       [subject |-> "Smoking", subject_type |-> "risk_factor",
        predicate |-> "aggravate", object |-> "AMD Progression",
        object_type |-> "progression"],
       [subject |-> "NCT01778491", subject_type |-> "test/diagnostic",
        predicate |-> "diagnose", object |-> "AMD Subtypes",
        object_type |-> "disease"] >>

\* two triples an extraction can return
TripleA ==
    [subject |-> "Smoking", subject_type |-> "risk_factor", predicate |-> "aggravate",
     object |-> "AMD progression", object_type |-> "progression"]
TripleB ==
    [subject |-> "Drusen", subject_type |-> "biomarker", predicate |-> "present",
     object |-> "Macula", object_type |-> "body_part"]

\* what extractTriples can resolve with
ExtractionOutputs == { <<>>, <<TripleA>>, <<TripleB, TripleA>> }
\* what synthesizeContext and generateFinalResponse can resolve with
Narratives == { "narrative1", "narrative2" }
Answers == { "answer1", "answer2" }

-----------------------------------------------------------------------------
(* Chat turns *)

FallbackMessage ==
    "I encountered an error processing your medical inquiry. Please check the clinical guidelines directly."

UserTurn(userQuery) == [role |-> "user", content |-> userQuery]

\* mutant: the answer and the narrative change places
AiTurn_SwapsFields(finalAnswer, narrative) ==
    [role |-> "ai", content |-> narrative, context |-> finalAnswer]

AiTurn(finalAnswer, narrative) == [role |-> "ai", content |-> finalAnswer, context |-> narrative]
FallbackTurn == [role |-> "ai", content |-> FallbackMessage]

\* mutant: prev => [turn, ...prev]
AppendTurn_Prepend(prev, turn) == <<turn>> \o prev

\* mutant: setChatHistory([turn]), the previous turns are dropped
AppendTurn_DropsHistory(prev, turn) == <<turn>>

\* prev => [...prev, turn]
AppendTurn(prev, turn) == Append(prev, turn)

\* mutant: the held Extraction Result is ignored
SimulatedContext_AlwaysDefault(held) == DefaultFacts

\* the fact set handleAssistantQuery grounds on
SimulatedContext(held) == IF Len(held) > 0 THEN held ELSE DefaultFacts

\* the narrative argument of generateFinalResponse
GenerationNarrative(narrative) == narrative

-----------------------------------------------------------------------------
(* Oracle calls *)

ExtractCall(id, text) == [fn |-> "extractTriples", id |-> id, text |-> text]
SynthCall(r, userQuery, facts) ==
    [fn |-> "synthesizeContext", id |-> r, query |-> userQuery, facts |-> facts]
GenCall(r, userQuery, narrative) ==
    [fn |-> "generateFinalResponse", id |-> r, query |-> userQuery, narrative |-> narrative]

ExtractCalls == { c \in inflight : c.fn = "extractTriples" }
SynthCalls == { c \in inflight : c.fn = "synthesizeContext" }
GenCalls == { c \in inflight : c.fn = "generateFinalResponse" }

\* a request is in flight from its submission until its assistant turn is appended
AssistantInFlight == \E r \in 1..Len(requests) : requests[r].pc # "done"
ExtractionInFlight == \E e \in 1..Len(extractions) : extractions[e].pc # "done"

-----------------------------------------------------------------------------

Init ==
    /\ activeStep = "ASSISTANT"
    /\ rawText = <<>>
    /\ extractedTriples = <<>>
    /\ isExtracting = FALSE
    /\ query = <<>>
    /\ chatHistory = <<>>
    /\ isGenerating = FALSE
    /\ inflight = {}
    /\ requests = <<>>
    /\ extractions = <<>>
    /\ turnOwner = <<>>
    /\ blankSubmit = "none"

-----------------------------------------------------------------------------
(* Navigation and typing *)

SetActiveStep(s) ==
    /\ activeStep' = s
    /\ blankSubmit' = "none"
    /\ UNCHANGED <<rawText, extractedTriples, isExtracting, query, chatHistory,
                   isGenerating, inflight, requests, extractions, turnOwner>>

SetRawText(t) ==
    /\ activeStep = "EXTRACT"
    /\ rawText' = t
    /\ blankSubmit' = "none"
    /\ UNCHANGED <<activeStep, extractedTriples, isExtracting, query, chatHistory,
                   isGenerating, inflight, requests, extractions, turnOwner>>

SetQuery(q) ==
    /\ activeStep = "ASSISTANT"
    /\ query' = q
    /\ blankSubmit' = "none"
    /\ UNCHANGED <<activeStep, rawText, extractedTriples, isExtracting, chatHistory,
                   isGenerating, inflight, requests, extractions, turnOwner>>

-----------------------------------------------------------------------------
(* Extraction lane *)

\* handleExtraction up to its await
HandleExtraction ==
    IF Trim(rawText) = <<>>
    THEN /\ blankSubmit' = (IF IsBlank(rawText) THEN "handleExtraction" ELSE "none")
         /\ UNCHANGED sessionVars
    ELSE /\ Len(extractions) + Len(requests) < MaxSubmissions
         /\ isExtracting' = TRUE
         /\ inflight' = inflight \cup { ExtractCall(Len(extractions) + 1, rawText) }
         /\ extractions' = Append(extractions,
                [text |-> rawText, before |-> extractedTriples,
                 flagBefore |-> isExtracting, pc |-> "extract", outcome |-> "pending",
                 returned |-> <<>>, after |-> <<>>, flagAfter |-> TRUE])
         /\ blankSubmit' = (IF IsBlank(rawText) THEN "handleExtraction" ELSE "none")
         /\ UNCHANGED <<activeStep, rawText, extractedTriples, query, chatHistory,
                        isGenerating, requests, turnOwner>>

\* mutant: the button does not look at the in-flight flag
ExtractDisabled_IgnoresFlag == Falsy(rawText)

\* mutant: the button is disabled while either lane is busy
ExtractDisabled_WhileGenerating == isExtracting \/ isGenerating \/ Falsy(rawText)

\* the disabled attribute of the Extract Triples button
ExtractDisabled == isExtracting \/ Falsy(rawText)

ClickExtract ==
    /\ activeStep = "EXTRACT"
    /\ ~ExtractDisabled
    /\ HandleExtraction

\* mutant: the new triples are merged into the held result
ExtractResolve_Merges(c, triples) ==
    /\ c \in ExtractCalls
    /\ inflight' = inflight \ {c}
    /\ extractedTriples' = extractedTriples \o triples
    /\ isExtracting' = FALSE
    /\ extractions' = [extractions EXCEPT ![c.id] =
            [@ EXCEPT !.pc = "done", !.outcome = "ok", !.returned = triples,
                      !.after = extractedTriples', !.flagAfter = isExtracting']]
    /\ blankSubmit' = "none"
    /\ UNCHANGED <<activeStep, rawText, query, chatHistory, isGenerating, requests,
                   turnOwner>>

\* mutant: the pending synthesis calls are regrounded on the new result
ExtractResolve_RegroundsPending(c, triples) ==
    /\ c \in ExtractCalls
    /\ inflight' = { IF d.fn = "synthesizeContext"
                        THEN [d EXCEPT !.facts = SimulatedContext(triples)]
                        ELSE d : d \in inflight \ {c} }
    /\ extractedTriples' = triples
    /\ isExtracting' = FALSE
    /\ extractions' = [extractions EXCEPT ![c.id] =
            [@ EXCEPT !.pc = "done", !.outcome = "ok", !.returned = triples,
                      !.after = extractedTriples', !.flagAfter = isExtracting']]
    /\ blankSubmit' = "none"
    /\ UNCHANGED <<activeStep, rawText, query, chatHistory, isGenerating, requests,
                   turnOwner>>

\* extractTriples resolved: setExtractedTriples(triples), then finally
ExtractResolve(c, triples) ==
    /\ c \in ExtractCalls
    /\ inflight' = inflight \ {c}
    /\ extractedTriples' = triples
    /\ isExtracting' = FALSE
    /\ extractions' = [extractions EXCEPT ![c.id] =
            [@ EXCEPT !.pc = "done", !.outcome = "ok", !.returned = triples,
                      !.after = extractedTriples', !.flagAfter = isExtracting']]
    /\ blankSubmit' = "none"
    /\ UNCHANGED <<activeStep, rawText, query, chatHistory, isGenerating, requests,
                   turnOwner>>

\* mutant: a failed extraction clears the held result
ExtractReject_ClearsResult(c) ==
    /\ c \in ExtractCalls
    /\ inflight' = inflight \ {c}
    /\ extractedTriples' = <<>>
    /\ isExtracting' = FALSE
    /\ extractions' = [extractions EXCEPT ![c.id] =
            [@ EXCEPT !.pc = "done", !.outcome = "failed",
                      !.after = extractedTriples', !.flagAfter = isExtracting']]
    /\ blankSubmit' = "none"
    /\ UNCHANGED <<activeStep, rawText, query, chatHistory, isGenerating, requests,
                   turnOwner>>

\* mutant: the catch reports the failure as a turn of the chat
ExtractReject_ReportsInChat(c) ==
    /\ c \in ExtractCalls
    /\ inflight' = inflight \ {c}
    /\ extractedTriples' = extractedTriples
    /\ isExtracting' = FALSE
    /\ chatHistory' = AppendTurn(chatHistory, FallbackTurn)
    /\ turnOwner' = AppendTurn(turnOwner, 0)
    /\ extractions' = [extractions EXCEPT ![c.id] =
            [@ EXCEPT !.pc = "done", !.outcome = "failed",
                      !.after = extractedTriples', !.flagAfter = isExtracting']]
    /\ blankSubmit' = "none"
    /\ UNCHANGED <<activeStep, rawText, query, isGenerating, requests>>

\* extractTriples rejected: catch logs, then finally
ExtractReject(c) ==
    /\ c \in ExtractCalls
    /\ inflight' = inflight \ {c}
    /\ extractedTriples' = extractedTriples
    /\ isExtracting' = FALSE
    /\ extractions' = [extractions EXCEPT ![c.id] =
            [@ EXCEPT !.pc = "done", !.outcome = "failed",
                      !.after = extractedTriples', !.flagAfter = isExtracting']]
    /\ blankSubmit' = "none"
    /\ UNCHANGED <<activeStep, rawText, query, chatHistory, isGenerating, requests,
                   turnOwner>>

-----------------------------------------------------------------------------
(* Assistant lane *)

\* handleAssistantQuery up to its first await
HandleAssistantQuery ==
    IF Trim(query) = <<>>
    THEN /\ blankSubmit' = (IF IsBlank(query) THEN "handleAssistantQuery" ELSE "none")
         /\ UNCHANGED sessionVars
    ELSE LET r == Len(requests) + 1
             userQuery == query
             simulatedContext == SimulatedContext(extractedTriples)
         IN  /\ Len(extractions) + Len(requests) < MaxSubmissions
             /\ query' = <<>>
             /\ chatHistory' = AppendTurn(chatHistory, UserTurn(userQuery))
             /\ turnOwner' = AppendTurn(turnOwner, r)
             /\ isGenerating' = TRUE
             /\ inflight' = inflight \cup { SynthCall(r, userQuery, simulatedContext) }
             /\ requests' = Append(requests,
                    [userQuery |-> userQuery, facts |-> simulatedContext,
                     held |-> extractedTriples, pc |-> "synth", synth |-> "pending",
                     narrative |-> "", gen |-> "none", answer |-> "",
                     flagAfter |-> TRUE])
             /\ blankSubmit' = (IF IsBlank(query) THEN "handleAssistantQuery" ELSE "none")
             /\ UNCHANGED <<activeStep, rawText, extractedTriples, isExtracting,
                            extractions>>

\* the disabled attribute of the send button
SendDisabled == isGenerating \/ Falsy(query)

ClickSend ==
    /\ activeStep = "ASSISTANT"
    /\ ~SendDisabled
    /\ HandleAssistantQuery

\* onKeyDown of the query input, e.key === 'Enter'
PressEnter ==
    /\ activeStep = "ASSISTANT"
    /\ HandleAssistantQuery

\* synthesizeContext resolved: the handler goes on to generateFinalResponse
SynthResolve(c, narrative) ==
    /\ c \in SynthCalls
    /\ inflight' = (inflight \ {c}) \cup
            { GenCall(c.id, requests[c.id].userQuery, GenerationNarrative(narrative)) }
    /\ requests' = [requests EXCEPT ![c.id] =
            [@ EXCEPT !.pc = "gen", !.synth = "ok", !.narrative = narrative,
                      !.gen = "pending"]]
    /\ blankSubmit' = "none"
    /\ UNCHANGED <<activeStep, rawText, extractedTriples, isExtracting, query,
                   chatHistory, isGenerating, extractions, turnOwner>>

\* mutant: only the generation call is inside the try, the handler goes on
\* to generation with an empty narrative
SynthReject_StillGenerates(c) ==
    /\ c \in SynthCalls
    /\ inflight' = (inflight \ {c}) \cup { GenCall(c.id, requests[c.id].userQuery, "") }
    /\ requests' = [requests EXCEPT ![c.id] =
            [@ EXCEPT !.pc = "gen", !.synth = "failed", !.gen = "pending"]]
    /\ blankSubmit' = "none"
    /\ UNCHANGED <<activeStep, rawText, extractedTriples, isExtracting, query,
                   chatHistory, isGenerating, extractions, turnOwner>>

\* mutant: the flag is cleared at the end of the try block, not in a finally
SynthReject_NoFinally(c) ==
    /\ c \in SynthCalls
    /\ inflight' = inflight \ {c}
    /\ chatHistory' = AppendTurn(chatHistory, FallbackTurn)
    /\ turnOwner' = AppendTurn(turnOwner, c.id)
    /\ isGenerating' = isGenerating
    /\ requests' = [requests EXCEPT ![c.id] =
            [@ EXCEPT !.pc = "done", !.synth = "failed", !.flagAfter = isGenerating']]
    /\ blankSubmit' = "none"
    /\ UNCHANGED <<activeStep, rawText, extractedTriples, isExtracting, query,
                   extractions>>

\* synthesizeContext rejected: catch appends the fallback turn, then finally
SynthReject(c) ==
    /\ c \in SynthCalls
    /\ inflight' = inflight \ {c}
    /\ chatHistory' = AppendTurn(chatHistory, FallbackTurn)
    /\ turnOwner' = AppendTurn(turnOwner, c.id)
    /\ isGenerating' = FALSE
    /\ requests' = [requests EXCEPT ![c.id] =
            [@ EXCEPT !.pc = "done", !.synth = "failed", !.flagAfter = isGenerating']]
    /\ blankSubmit' = "none"
    /\ UNCHANGED <<activeStep, rawText, extractedTriples, isExtracting, query,
                   extractions>>

\* generateFinalResponse resolved: the assistant turn is appended, then finally
GenResolve(c, finalAnswer) ==
    /\ c \in GenCalls
    /\ inflight' = inflight \ {c}
    /\ chatHistory' = AppendTurn(chatHistory, AiTurn(finalAnswer, requests[c.id].narrative))
    /\ turnOwner' = AppendTurn(turnOwner, c.id)
    /\ isGenerating' = FALSE
    /\ requests' = [requests EXCEPT ![c.id] =
            [@ EXCEPT !.pc = "done", !.gen = "ok", !.answer = finalAnswer,
                      !.flagAfter = isGenerating']]
    /\ blankSubmit' = "none"
    /\ UNCHANGED <<activeStep, rawText, extractedTriples, isExtracting, query,
                   extractions>>

\* mutant: no catch, the rejection escapes and no turn is appended
GenReject_NoFallbackTurn(c) ==
    /\ c \in GenCalls
    /\ inflight' = inflight \ {c}
    /\ isGenerating' = FALSE
    /\ requests' = [requests EXCEPT ![c.id] =
            [@ EXCEPT !.pc = "done", !.gen = "failed", !.flagAfter = isGenerating']]
    /\ blankSubmit' = "none"
    /\ UNCHANGED <<activeStep, rawText, extractedTriples, isExtracting, query,
                   chatHistory, extractions, turnOwner>>

\* mutant: the fallback turn keeps the narrative that synthesis produced
GenReject_KeepsNarrative(c) ==
    /\ c \in GenCalls
    /\ inflight' = inflight \ {c}
    /\ chatHistory' = AppendTurn(chatHistory, AiTurn(FallbackMessage, requests[c.id].narrative))
    /\ turnOwner' = AppendTurn(turnOwner, c.id)
    /\ isGenerating' = FALSE
    /\ requests' = [requests EXCEPT ![c.id] =
            [@ EXCEPT !.pc = "done", !.gen = "failed", !.flagAfter = isGenerating']]
    /\ blankSubmit' = "none"
    /\ UNCHANGED <<activeStep, rawText, extractedTriples, isExtracting, query,
                   extractions>>

\* generateFinalResponse rejected: catch appends the fallback turn, then finally
GenReject(c) ==
    /\ c \in GenCalls
    /\ inflight' = inflight \ {c}
    /\ chatHistory' = AppendTurn(chatHistory, FallbackTurn)
    /\ turnOwner' = AppendTurn(turnOwner, c.id)
    /\ isGenerating' = FALSE
    /\ requests' = [requests EXCEPT ![c.id] =
            [@ EXCEPT !.pc = "done", !.gen = "failed", !.flagAfter = isGenerating']]
    /\ blankSubmit' = "none"
    /\ UNCHANGED <<activeStep, rawText, extractedTriples, isExtracting, query,
                   extractions>>

-----------------------------------------------------------------------------

\* the oracle answers the pending call of the extraction lane, with one of
\* outputs or with a rejection
ExtractionResolvesWith(outputs) ==
    \E c \in ExtractCalls :
        \/ \E triples \in outputs : ExtractResolve(c, triples)
        \/ ExtractReject(c)

\* the oracle answers the pending call of request r
AssistantResolvesWith(r, narratives, answers) ==
    \E c \in SynthCalls \cup GenCalls :
        /\ c.id = r
        /\ \/ \E narrative \in narratives : SynthResolve(c, narrative)
           \/ SynthReject(c)
           \/ \E finalAnswer \in answers : GenResolve(c, finalAnswer)
           \/ GenReject(c)

ExtractionResolves == ExtractionResolvesWith(ExtractionOutputs)
AssistantResolves(r) == AssistantResolvesWith(r, Narratives, Answers)

Next ==
    \/ \E s \in {"EXTRACT", "ASSISTANT"} : SetActiveStep(s)
    \/ \E t \in RawTexts : SetRawText(t)
    \/ \E q \in Queries : SetQuery(q)
    \/ ClickExtract
    \/ ClickSend
    \/ PressEnter
    \/ ExtractionResolves
    \/ \E r \in 1..MaxSubmissions : AssistantResolves(r)

Spec == Init /\ [][Next]_vars

-----------------------------------------------------------------------------
(* Progress.  Whether and when a lane moves on does not depend on the      *)
(* value an oracle call resolves with, only on its resolving or rejecting: *)
(* the fair specification lets each call resolve with one value.           *)

LiveOutputs == { <<TripleA>> }
LiveNarratives == { "narrative1" }
LiveAnswers == { "answer1" }

LiveExtractionResolves == ExtractionResolvesWith(LiveOutputs)
LiveAssistantResolves(r) == AssistantResolvesWith(r, LiveNarratives, LiveAnswers)

LiveNext ==
    \/ \E s \in {"EXTRACT", "ASSISTANT"} : SetActiveStep(s)
    \/ \E t \in RawTexts : SetRawText(t)
    \/ \E q \in Queries : SetQuery(q)
    \/ ClickExtract
    \/ ClickSend
    \/ PressEnter
    \/ LiveExtractionResolves
    \/ \E r \in 1..MaxSubmissions : LiveAssistantResolves(r)

\* every oracle call eventually resolves, with success or with failure
FairSpec ==
    /\ Init /\ [][LiveNext]_vars
    /\ WF_vars(LiveExtractionResolves)
    /\ \A r \in 1..MaxSubmissions : WF_vars(LiveAssistantResolves(r))

-----------------------------------------------------------------------------
(* Vocabulary of the properties *)

Requests == 1..Len(requests)
Extractions == 1..Len(extractions)

\* the positions of the transcript that request r appended with the given role
TurnsOf(r, role) ==
    { i \in 1..Len(chatHistory) : turnOwner[i] = r /\ chatHistory[i].role = role }

UserTurnCount == Cardinality({ i \in 1..Len(chatHistory) : chatHistory[i].role = "user" })

\* the calls of request r that are pending
CallsOf(r) == { c \in SynthCalls \cup GenCalls : c.id = r }

Failed(r) == requests[r].synth = "failed" \/ requests[r].gen = "failed"

-----------------------------------------------------------------------------
(* C1: while a previous query is still Synthesizing or Generating, a       *)
(* submitQuery has no observable effect: no step appends a user Chat Turn  *)
(* and no step issues a new synthesis call, so at most one assistant       *)
(* request is ever in flight.                                              *)

C1_SingleFlight ==
    [][AssistantInFlight =>
        /\ UserTurnCount' = UserTurnCount
        /\ SynthCalls' \subseteq SynthCalls]_vars

-----------------------------------------------------------------------------
(* C2: every submitted query yields exactly one assistant Chat Turn: a     *)
(* request has one user turn, no assistant turn while its oracle calls are *)
(* pending and exactly one once they have resolved; and, every oracle call *)
(* eventually resolving, that turn is eventually appended.                 *)

ExactlyOneAssistantTurn ==
    \A r \in Requests :
        /\ Cardinality(TurnsOf(r, "user")) = 1
        /\ Cardinality(TurnsOf(r, "ai")) = IF requests[r].pc = "done" THEN 1 ELSE 0
        /\ requests[r].pc # "done" <=> CallsOf(r) # {}

Answered(r) == r \in Requests /\ Cardinality(TurnsOf(r, "ai")) = 1

C2_OneAssistantTurnPerQuery ==
    /\ []ExactlyOneAssistantTurn
    /\ \A r \in 1..MaxSubmissions : (r \in Requests) ~> Answered(r)

\* both requests of a session answered, one by the fallback turn after its
\* generation failed, one by a generated answer
C2_Witness ==
    \E r1, r2 \in Requests :
        /\ requests[r1].gen = "failed" /\ Answered(r1)
        /\ requests[r2].gen = "ok" /\ Answered(r2)

-----------------------------------------------------------------------------
(* C3: when an extraction request fails, the held Extraction Result is     *)
(* what it was when the request was submitted and the extraction lane is   *)
(* Idle again (isExtracting false).                                        *)

C3_FailedExtractionKeepsResult ==
    \A e \in Extractions :
        extractions[e].outcome = "failed" =>
            /\ extractions[e].after = extractions[e].before
            /\ extractions[e].flagAfter = FALSE
            /\ extractions[e].pc = "done"

\* an extraction failed while a non-empty result was held
C3_Witness ==
    \E e \in Extractions :
        /\ extractions[e].outcome = "failed"
        /\ extractions[e].before # <<>>
        /\ extractedTriples = extractions[e].before
        /\ ~isExtracting

-----------------------------------------------------------------------------
(* C4: a failure at either step of an assistant request appends one        *)
(* assistant Chat Turn, whose content is the fixed fallback message and    *)
(* which has no grounding context (also when synthesis had produced a      *)
(* narrative), and the handler clears the assistant in-flight flag.        *)

C4_FailureAppendsFallback ==
    \A r \in Requests :
        Failed(r) =>
            /\ requests[r].pc = "done"
            /\ requests[r].flagAfter = FALSE
            /\ Cardinality(TurnsOf(r, "ai")) = 1
            /\ \A i \in TurnsOf(r, "ai") :
                /\ chatHistory[i].content = FallbackMessage
                /\ "context" \notin DOMAIN chatHistory[i]

\* generation failed after synthesis had produced a narrative
C4_Witness ==
    \E r \in Requests :
        /\ requests[r].gen = "failed"
        /\ requests[r].narrative \in Narratives
        /\ \E i \in TurnsOf(r, "ai") : chatHistory[i] = FallbackTurn
        /\ ~isGenerating

-----------------------------------------------------------------------------
(* C5: the generation call of a request is issued only after its synthesis *)
(* call resolved successfully, with the narrative synthesis returned for   *)
(* that request; after a failed synthesis no generation call is issued;    *)
(* the two calls of one request are never pending together.                *)

C5_SynthesisBeforeGeneration ==
    /\ \A g \in GenCalls :
        /\ g.id \in Requests
        /\ requests[g.id].synth = "ok"
        /\ g.narrative = requests[g.id].narrative
        /\ g.query = requests[g.id].userQuery
    /\ \A r \in Requests :
        /\ requests[r].gen # "none" => requests[r].synth = "ok"
        /\ requests[r].synth = "failed" => requests[r].gen = "none"
        /\ Cardinality(CallsOf(r)) <= 1

\* two requests overlap: the generation call of one is pending with the
\* narrative its synthesis returned, the other synthesis has failed
C5_Witness ==
    \E g \in GenCalls : \E r \in Requests :
        /\ g.narrative = "narrative2"
        /\ requests[g.id].narrative = "narrative2"
        /\ r # g.id
        /\ requests[r].synth = "failed"

-----------------------------------------------------------------------------
(* C6: the fact set a query passes to synthesis is the Extraction Result   *)
(* held when the query is submitted if that result is non-empty, and the   *)
(* default fact set otherwise.                                             *)

C6_FactSetSelection ==
    /\ \A r \in Requests :
        requests[r].facts =
            IF requests[r].held # <<>> THEN requests[r].held ELSE DefaultFacts
    /\ \A c \in SynthCalls :
        /\ c.id \in Requests
        /\ c.facts = requests[c.id].facts

\* a synthesis call is pending on an extracted result, submitted after a
\* successful extraction
C6_Witness ==
    \E c \in SynthCalls : \E e \in Extractions :
        /\ extractions[e].outcome = "ok"
        /\ extractions[e].returned # <<>>
        /\ requests[c.id].held = extractions[e].returned
        /\ c.facts = extractions[e].returned

-----------------------------------------------------------------------------
(* C7: both lanes always return to Idle: every oracle call eventually      *)
(* resolving, an extraction in flight is eventually over with isExtracting *)
(* false, every assistant request in flight is eventually over, a set      *)
(* isGenerating is eventually cleared; and a lane with nothing in flight   *)
(* has its flag false, so that the next submission is accepted.            *)

Pending(r) == r \in Requests /\ requests[r].pc # "done"
Done(r) == r \in Requests /\ requests[r].pc = "done"

NoStuckFlag ==
    /\ ~ExtractionInFlight => (~isExtracting /\ (~Falsy(rawText) => ~ExtractDisabled))
    /\ ~AssistantInFlight => (~isGenerating /\ (~Falsy(query) => ~SendDisabled))

C7_LanesReturnToIdle ==
    /\ []NoStuckFlag
    /\ ExtractionInFlight ~> (~ExtractionInFlight /\ ~isExtracting)
    /\ isGenerating ~> ~isGenerating
    /\ \A r \in 1..MaxSubmissions : Pending(r) ~> Done(r)

\* after a failed synthesis and a failed extraction both lanes are Idle
C7_Witness ==
    /\ \E r \in Requests : requests[r].synth = "failed"
    /\ \E e \in Extractions : extractions[e].outcome = "failed"
    /\ ~AssistantInFlight /\ ~isGenerating
    /\ ~ExtractionInFlight /\ ~isExtracting

-----------------------------------------------------------------------------
(* C8: on a successful extraction the held Extraction Result becomes the   *)
(* sequence the call returned, in its order, and keeps nothing of the      *)
(* result held before.                                                     *)

C8_ExtractionReplacesResult ==
    \A e \in Extractions :
        extractions[e].outcome = "ok" =>
            /\ extractions[e].after = extractions[e].returned
            /\ extractions[e].pc = "done"

\* a second extraction replaced a non-empty result by a different one
C8_Witness ==
    \E e \in Extractions :
        /\ extractions[e].outcome = "ok"
        /\ extractions[e].before = <<TripleA>>
        /\ extractions[e].returned = <<TripleB, TripleA>>
        /\ extractedTriples = <<TripleB, TripleA>>

-----------------------------------------------------------------------------
(* C9: at most one extraction request is in flight: an extraction is       *)
(* submitted only with a text that is not blank and while no extraction is *)
(* in flight, and isExtracting is true as long as the call is pending.     *)

C9_SingleFlightExtraction ==
    /\ Cardinality(ExtractCalls) <= 1
    /\ Cardinality({ e \in Extractions : extractions[e].pc # "done" }) <= 1
    /\ ExtractCalls # {} => isExtracting
    /\ \A e \in Extractions :
        /\ extractions[e].flagBefore = FALSE
        /\ Trim(extractions[e].text) # <<>>

\* an extraction is pending while the Extraction Lab shows a non-blank text:
\* only the disabled button keeps a second one from being submitted
C9_Witness ==
    /\ ExtractCalls # {}
    /\ activeStep = "EXTRACT"
    /\ Trim(rawText) # <<>>
    /\ Len(extractions) < MaxSubmissions

-----------------------------------------------------------------------------
(* C10: the user Chat Turn of a query is in the transcript from the moment *)
(* the query is submitted, before any of its oracle calls resolves, and it *)
(* stands before the assistant turn of the same query.                     *)

C10_UserTurnFirst ==
    \A r \in Requests :
        /\ \E i \in TurnsOf(r, "user") : chatHistory[i] = UserTurn(requests[r].userQuery)
        /\ \A i \in TurnsOf(r, "user") : \A j \in TurnsOf(r, "ai") : i < j

\* two requests overlap; the second is answered while the first still waits
\* for synthesis
C10_Witness ==
    /\ Len(requests) = 2
    /\ requests[1].pc = "synth"
    /\ requests[2].pc = "done"
    /\ TurnsOf(1, "user") = {1}
    /\ TurnsOf(2, "user") = {2}
    /\ TurnsOf(2, "ai") = {3}

-----------------------------------------------------------------------------
(* C11: the chat transcript is append-only: every step leaves the Chat     *)
(* Turn sequence as it is or extends it by exactly one turn at the end;    *)
(* no turn is removed, reordered or modified, also when the continuation   *)
(* of an earlier request runs after later turns were appended.             *)

C11_TranscriptAppendOnly ==
    [][\/ chatHistory' = chatHistory
       \/ /\ Len(chatHistory') = Len(chatHistory) + 1
          /\ SubSeq(chatHistory', 1, Len(chatHistory)) = chatHistory]_vars

\* the first request was answered after the second request's user turn and
\* assistant turn had been appended
C11_Witness ==
    /\ Len(requests) = 2
    /\ Len(chatHistory) = 4
    /\ TurnsOf(1, "user") = {1}
    /\ TurnsOf(2, "user") = {2}
    /\ TurnsOf(2, "ai") = {3}
    /\ TurnsOf(1, "ai") = {4}
    /\ chatHistory[3] # chatHistory[4]

-----------------------------------------------------------------------------
(* C12: the lanes touch disjoint state and may be in flight together:      *)
(* every step of the extraction lane leaves the Chat Turn sequence and     *)
(* isGenerating unchanged, every step of the assistant lane leaves the     *)
(* held Extraction Result and isExtracting unchanged, and whether a        *)
(* submission is accepted depends on its own lane's state only.            *)

ExtractionLaneStep == extractions' # extractions \/ ExtractCalls' # ExtractCalls
AssistantLaneStep ==
    requests' # requests \/ SynthCalls' # SynthCalls \/ GenCalls' # GenCalls

LanesFrame ==
    /\ ExtractionLaneStep => UNCHANGED <<chatHistory, isGenerating, requests>>
    /\ AssistantLaneStep => UNCHANGED <<extractedTriples, isExtracting, extractions>>

UnderBound == Len(extractions) + Len(requests) < MaxSubmissions

\* a click on Extract Triples submits an extraction
ExtractionAccepted == ClickExtract /\ extractions' # extractions
\* a click on send or the Enter key submits a query
QueryAccepted == (ClickSend \/ PressEnter) /\ requests' # requests

LaneGuardsLocal ==
    UnderBound =>
        /\ (ENABLED ExtractionAccepted) <=>
                (activeStep = "EXTRACT" /\ ~isExtracting /\ Trim(rawText) # <<>>)
        /\ (ENABLED QueryAccepted) <=>
                (activeStep = "ASSISTANT" /\ Trim(query) # <<>>)

C12_LanesDisjoint ==
    /\ []LaneGuardsLocal
    /\ [][LanesFrame]_vars

\* an extraction was submitted and has replaced the held result while a
\* request submitted before it is still waiting for its synthesis
C12_Witness ==
    \E c \in SynthCalls : \E e \in Extractions :
        /\ extractions[e].outcome = "ok"
        /\ extractions[e].before = requests[c.id].held
        /\ extractedTriples # requests[c.id].held
        /\ isGenerating /\ ~isExtracting
        /\ Len(chatHistory) = 1

-----------------------------------------------------------------------------
(* C13: when synthesis and generation both succeed, the assistant Chat     *)
(* Turn appended for the query has the answer generation returned as its   *)
(* content and the narrative synthesis returned for the same query as its  *)
(* grounding context, and the handler clears isGenerating.                 *)

C13_SuccessTurn ==
    \A r \in Requests :
        requests[r].gen = "ok" =>
            /\ requests[r].synth = "ok"
            /\ requests[r].pc = "done"
            /\ requests[r].flagAfter = FALSE
            /\ Cardinality(TurnsOf(r, "ai")) = 1
            /\ \A i \in TurnsOf(r, "ai") :
                /\ DOMAIN chatHistory[i] = {"role", "content", "context"}
                /\ chatHistory[i].content = requests[r].answer
                /\ chatHistory[i].context = requests[r].narrative

\* two overlapping requests were answered, with different narratives and
\* different answers
C13_Witness ==
    /\ Len(requests) = 2
    /\ requests[1].gen = "ok" /\ requests[2].gen = "ok"
    /\ requests[1].narrative = "narrative1" /\ requests[2].narrative = "narrative2"
    /\ requests[1].answer = "answer2" /\ requests[2].answer = "answer1"
    /\ TurnsOf(2, "ai") = {3}
    /\ TurnsOf(1, "ai") = {4}
    /\ ~isGenerating

-----------------------------------------------------------------------------
(* C14: a submitQuery whose query is empty or whitespace-only and a        *)
(* submitExtraction whose text is empty or whitespace-only is a no-op: no  *)
(* oracle call is issued, no Chat Turn is appended, no in-flight flag      *)
(* changes, the held Extraction Result is unchanged and no fallback turn   *)
(* is produced.                                                            *)

C14_BlankSubmitIsNoOp ==
    [][blankSubmit' # "none" =>
        UNCHANGED <<inflight, chatHistory, turnOwner, isExtracting, isGenerating,
                    extractedTriples, requests, extractions, rawText, query,
                    activeStep>>]_vars

\* Extract Triples was clicked on a whitespace-only text (the button is
\* enabled, the text is not empty) while a result was held and a request
\* was waiting for its synthesis
C14_Witness ==
    /\ blankSubmit = "handleExtraction"
    /\ rawText = <<" ">>
    /\ ~ExtractDisabled
    /\ extractedTriples # <<>>
    /\ SynthCalls # {}

\* Enter was pressed on a whitespace-only query
C14_WitnessQuery ==
    /\ blankSubmit = "handleAssistantQuery"
    /\ query = <<" ">>

-----------------------------------------------------------------------------
(* C15: the default fact set, used when the held Extraction Result is      *)
(* empty, is exactly three Triples in this order: (Age-related Macular     *)
(* Degeneration, cause, Central Vision Impairment), (Smoking, aggravate,   *)
(* AMD Progression), (NCT01778491, diagnose, AMD Subtypes); it is the same *)
(* on every query and no operation alters it.                              *)

\* subject, predicate and object of the facts of a sequence
Statements(facts) ==
    [i \in 1..Len(facts) |-> <<facts[i].subject, facts[i].predicate, facts[i].object>>]

ThreeDefaultStatements ==
    << <<"Age-related Macular Degeneration", "cause", "Central Vision Impairment">>,
       <<"Smoking", "aggravate", "AMD Progression">>,
       <<"NCT01778491", "diagnose", "AMD Subtypes">> >>

C15_DefaultFactSet ==
    /\ \A r \in Requests :
        requests[r].held = <<>> => Statements(requests[r].facts) = ThreeDefaultStatements
    /\ \A c \in SynthCalls :
        requests[c.id].held = <<>> => Statements(c.facts) = ThreeDefaultStatements

\* two queries were grounded on the default fact set, the second after an
\* answer to the first
C15_Witness ==
    /\ Len(requests) = 2
    /\ requests[1].held = <<>> /\ requests[2].held = <<>>
    /\ requests[1].pc = "done"
    /\ \E c \in SynthCalls : c.id = 2 /\ c.facts = requests[1].facts

-----------------------------------------------------------------------------
(* C19: every Triple of the default fact set satisfies the Triple          *)
(* invariant: subject and object are not empty, subject_type and           *)
(* object_type are of the 12 entity types, predicate is one of the 8       *)
(* relation types; the extractor returning valid Triples only, every fact  *)
(* passed to synthesis is valid.                                           *)

ValidTriple(t) ==
    /\ t.subject # "" /\ t.object # ""
    /\ t.subject_type \in MedicalEntity
    /\ t.object_type \in MedicalEntity
    /\ t.predicate \in CausalRelation

AllValid(facts) == \A i \in 1..Len(facts) : ValidTriple(facts[i])

C19_FactsInVocabulary ==
    /\ Cardinality(MedicalEntity) = 12
    /\ Cardinality(CausalRelation) = 8
    /\ \A r \in Requests : AllValid(requests[r].facts)
    /\ \A c \in SynthCalls : AllValid(c.facts)

\* a synthesis call is pending on the default fact set: an extraction has
\* returned nothing
C19_Witness ==
    \E c \in SynthCalls : \E e \in Extractions :
        /\ extractions[e].outcome = "ok"
        /\ extractions[e].returned = <<>>
        /\ Len(c.facts) = 3
        /\ AllValid(c.facts)

-----------------------------------------------------------------------------
(* C16: isGenerating is true in every state in which an assistant request  *)
(* has been submitted and has not yet appended its assistant turn; the     *)
(* completion of one request never clears the flag while another request's *)
(* oracle calls are still pending.                                         *)

C16_FlagCoversPending ==
    /\ (\E r \in Requests : TurnsOf(r, "ai") = {}) => isGenerating
    /\ AssistantInFlight => isGenerating

-----------------------------------------------------------------------------
(* C17: the transcript strictly alternates user, assistant, user, ...      *)
(* starting with a user turn: the assistant turns never outnumber the user *)
(* turns, the two numbers differ by at most one, and they are equal        *)
(* whenever the assistant lane is idle.                                    *)

AiTurnCount == Cardinality({ i \in 1..Len(chatHistory) : chatHistory[i].role = "ai" })

C17_StrictAlternation ==
    /\ \A i \in 1..Len(chatHistory) :
        chatHistory[i].role = (IF i % 2 = 1 THEN "user" ELSE "ai")
    /\ AiTurnCount <= UserTurnCount
    /\ UserTurnCount <= AiTurnCount + 1
    /\ ~isGenerating => AiTurnCount = UserTurnCount

-----------------------------------------------------------------------------
(* C18: the fact set of an assistant request is fixed when the query is    *)
(* submitted: a step that changes the held Extraction Result changes no    *)
(* pending synthesis or generation call, no request and no turn of the     *)
(* transcript; the facts of a pending synthesis call are those selected    *)
(* from the result held at submission; a newly submitted query is grounded *)
(* on the result held at that moment.                                      *)

\* the selection of section "fact set", stated on the held result
SelectedFrom(held) == IF held = <<>> THEN DefaultFacts ELSE held

FactsAsSubmitted ==
    /\ \A r \in Requests : requests[r].facts = SelectedFrom(requests[r].held)
    /\ \A c \in SynthCalls : c.facts = requests[c.id].facts

ResultChangeLeavesRequests ==
    extractedTriples' # extractedTriples =>
        /\ SynthCalls' = SynthCalls
        /\ GenCalls' = GenCalls
        /\ requests' = requests
        /\ chatHistory' = chatHistory

SubmissionUsesCurrentResult ==
    Len(requests') = Len(requests) + 1 =>
        /\ requests'[Len(requests')].held = extractedTriples
        /\ \E c \in SynthCalls' \ SynthCalls :
            /\ c.id = Len(requests')
            /\ c.facts = SelectedFrom(extractedTriples)

C18_FactSetFixedAtSubmission ==
    /\ []FactsAsSubmitted
    /\ [][ResultChangeLeavesRequests /\ SubmissionUsesCurrentResult]_vars

\* a request grounded on the default facts is Generating while the held
\* result, replaced since its submission, holds two triples
C18_Witness ==
    \E c \in GenCalls :
        /\ requests[c.id].held = <<>>
        /\ requests[c.id].facts = DefaultFacts
        /\ extractedTriples = <<TripleB, TripleA>>
        /\ \E e \in Extractions : extractions[e].outcome = "ok"

====
